---- MODULE Spec2Model ----
(***************************************************************************)
(* miniquad graphics.rs: the render context, its GL state cache, the       *)
(* pipeline layout computation and the buffer objects.                     *)
(*                                                                         *)
(* Rust Option<T> is modelled as a sequence: None is <<>>, Some(x) is      *)
(* <<x>>.  Rust slices and Vecs that the code indexes from 0 are modelled  *)
(* as functions on 0..n-1 where the index is a value the code computes     *)
(* (vertex_layout, cache.attributes), and as TLA+ sequences read at i+1    *)
(* where the code only iterates or looks up (buffer_layout, attributes,    *)
(* vertex_buffers, the registries).                                        *)
(*                                                                         *)
(* A Rust panic ends the program: it sets `panicked` and no action is      *)
(* enabled afterwards.                                                     *)
(***************************************************************************)
EXTENDS Integers, Sequences, FiniteSets, TLC

VARIABLES
    shaders,              \* Context.shaders: Vec<ShaderInternal>
    pipelines,            \* Context.pipelines: Vec<PipelineInternal>
    passes,               \* Context.passes: Vec<RenderPassInternal>
    default_framebuffer,  \* Context.default_framebuffer
    cache,                \* Context.cache: GlCache
    buffers,              \* the Buffer handles returned to the caller so far
    gl,                   \* the driver's state, as far as the calls issued determine it
    calls,                \* the driver calls issued by the last operation, in order
    last,                 \* the last operation and its arguments
    usage,                \* whether an apply_pipeline has completed, and an apply_bindings since the last end_render_pass
    run,                  \* how many of the latest operations form apply_pipeline(P), apply_bindings(B), apply_pipeline(P), apply_bindings(B)
    panicked              \* the last operation panicked: the program has ended

vars == <<shaders, pipelines, passes, default_framebuffer, cache, buffers, gl, calls, last,
          usage, run, panicked>>

----------------------------------------------------------------------------
(* Bounds of the model *)

MaxBuffers == 3
MaxSize == 1
MaxAttrs == 2
MaxMats == 5
MaxPasses == 2

----------------------------------------------------------------------------
(* Option and small helpers *)

None == <<>>
Some(x) == <<x>>
is_some(o) == o # <<>>
is_none(o) == o = <<>>
unwrap(o) == o[1]

RECURSIVE SumSeq(_)
SumSeq(s) == IF s = <<>> THEN 0 ELSE Head(s) + SumSeq(Tail(s))

MAX_VERTEX_ATTRIBUTES == 16

----------------------------------------------------------------------------
(* Vertex formats *)

VertexFormat == {"Float1", "Float2", "Float3", "Float4",
                 "Byte1", "Byte2", "Byte3", "Byte4", "Mat4"}

VertexFormat_size(f) ==
    CASE f = "Float1" -> 1 [] f = "Float2" -> 2 [] f = "Float3" -> 3 [] f = "Float4" -> 4
      [] f = "Byte1" -> 1  [] f = "Byte2" -> 2  [] f = "Byte3" -> 3  [] f = "Byte4" -> 4
      [] f = "Mat4" -> 16

VertexFormat_byte_len(f) ==
    CASE f = "Float1" -> 1 * 4 [] f = "Float2" -> 2 * 4 [] f = "Float3" -> 3 * 4
      [] f = "Float4" -> 4 * 4
      [] f = "Byte1" -> 1  [] f = "Byte2" -> 2  [] f = "Byte3" -> 3  [] f = "Byte4" -> 4
      [] f = "Mat4" -> 16 * 4

VertexFormat_type(f) ==
    IF f \in {"Byte1", "Byte2", "Byte3", "Byte4"} THEN "GL_UNSIGNED_BYTE" ELSE "GL_FLOAT"

UniformType == {"Float1", "Float2", "Float3", "Float4", "Mat4"}

UniformType_size(uniform_type, count) ==
    CASE uniform_type = "Float1" -> 4 * count
      [] uniform_type = "Float2" -> 8 * count
      [] uniform_type = "Float3" -> 12 * count
      [] uniform_type = "Float4" -> 16 * count
      [] uniform_type = "Mat4" -> 64 * count

\* #[derive(Default)] of VertexAttributeInternal: every field zero
VertexAttributeInternal_default ==
    [attr_loc |-> 0, size |-> 0, type_ |-> "0", offset |-> 0, stride |-> 0,
     buffer_index |-> 0, divisor |-> 0]

BufferLayout_default == [stride |-> 0, step_func |-> "PerVertex", step_rate |-> 1]

PipelineParams_default == [depth_write |-> FALSE, depth_test |-> "Always", color_blend |-> None]

----------------------------------------------------------------------------
(* The driver (OpenGL), as far as the code's calls determine its state *)

\* glGetAttribLocation(program, name): the location the linked program gives
\* the attribute, -1 when the program has no such active attribute
glGetAttribLocation(g, program, name) ==
    LET table == g.programs[program] IN
    IF \E e \in table : e[1] = name
    THEN (CHOOSE e \in table : e[1] = name)[2]
    ELSE -1

\* a vertex attribute array of the driver that is disabled.  The driver reads
\* nothing through a disabled array, so the model keeps no pointer, divisor or
\* source buffer for it: they are <<>> until a call sets them again, and an
\* array enabled without such a call shows as enabled with <<>>
AttribDisabled == [enabled |-> FALSE, pointer |-> <<>>, divisor |-> <<>>, buffer |-> <<>>]

\* the driver's state before any call of the program: nothing bound, blending
\* off, every vertex attribute array disabled
GlInitial ==
    [programs |-> <<>>, array_buffer |-> 0, element_array_buffer |-> 0,
     gen_buffers |-> 0, framebuffer |-> 0, gen_framebuffers |-> 0, blend |-> FALSE,
     attribs |-> [i \in 0 .. MAX_VERTEX_ATTRIBUTES - 1 |-> AttribDisabled]]

\* the driver's state after one call
GlStep(g, c) ==
    IF c.call = "glBindBuffer"
    THEN IF c.target = "GL_ARRAY_BUFFER"
         THEN [g EXCEPT !.array_buffer = c.buffer]
         ELSE [g EXCEPT !.element_array_buffer = c.buffer]
    ELSE IF c.call = "glGenBuffers"
    THEN [g EXCEPT !.gen_buffers = c.buffer]
    ELSE IF c.call = "glLinkProgram"
    THEN [g EXCEPT !.programs = Append(@, c.attributes)]
    ELSE IF c.call = "glBindFramebuffer"
    THEN [g EXCEPT !.framebuffer = c.framebuffer]
    ELSE IF c.call = "glEnable" /\ c.cap = "GL_BLEND"
    THEN [g EXCEPT !.blend = TRUE]
    ELSE IF c.call = "glDisable" /\ c.cap = "GL_BLEND"
    THEN [g EXCEPT !.blend = FALSE]
    ELSE IF c.call = "glGenFramebuffers"
    THEN [g EXCEPT !.gen_framebuffers = c.framebuffer]
    ELSE IF c.call = "glVertexAttribPointer"
    THEN [g EXCEPT !.attribs[c.index].pointer =
                       <<[size |-> c.size, type_ |-> c.type_, stride |-> c.stride,
                          offset |-> c.offset]>>,
                   !.attribs[c.index].buffer = <<g.array_buffer>>]
    ELSE IF c.call = "glVertexAttribDivisor"
    THEN [g EXCEPT !.attribs[c.index].divisor = <<c.divisor>>]
    ELSE IF c.call = "glEnableVertexAttribArray"
    THEN [g EXCEPT !.attribs[c.index].enabled = TRUE]
    ELSE IF c.call = "glDisableVertexAttribArray"
    THEN [g EXCEPT !.attribs[c.index] = AttribDisabled]
    ELSE g

\* the driver's state after a sequence of calls
RECURSIVE GlRun(_, _)
GlRun(g, cs) == IF cs = <<>> THEN g ELSE GlRun(GlStep(g, Head(cs)), Tail(cs))

\* the state threaded through an operation: the cache and the calls issued so far
Emit(st, c) == [st EXCEPT !.calls = Append(@, c)]

Enter(c) == [cache |-> c, calls |-> <<>>, panicked |-> FALSE]

----------------------------------------------------------------------------
(* GlCache *)

\* a bind that does not consult the tracked binding
bind_buffer_uncached(st, target, buffer) ==
    IF target = "GL_ARRAY_BUFFER"
    THEN Emit([st EXCEPT !.cache.vertex_buffer = buffer],
              [call |-> "glBindBuffer", target |-> target, buffer |-> buffer])
    ELSE Emit([st EXCEPT !.cache.index_buffer = buffer],
              [call |-> "glBindBuffer", target |-> target, buffer |-> buffer])

bind_buffer(st, target, buffer) ==
    IF target = "GL_ARRAY_BUFFER"
    THEN IF st.cache.vertex_buffer # buffer
         THEN Emit([st EXCEPT !.cache.vertex_buffer = buffer],
                   [call |-> "glBindBuffer", target |-> target, buffer |-> buffer])
         ELSE st
    ELSE IF st.cache.index_buffer # buffer
         THEN Emit([st EXCEPT !.cache.index_buffer = buffer],
                   [call |-> "glBindBuffer", target |-> target, buffer |-> buffer])
         ELSE st

\* a store that saves nothing
store_buffer_binding_skipped(st, target) == st

store_buffer_binding(st, target) ==
    IF target = "GL_ARRAY_BUFFER"
    THEN [st EXCEPT !.cache.stored_vertex_buffer = st.cache.vertex_buffer]
    ELSE [st EXCEPT !.cache.stored_index_buffer = st.cache.index_buffer]

\* a restore that binds the saved handle without recording it
restore_buffer_binding_untracked(st, target) ==
    Emit(st, [call |-> "glBindBuffer", target |-> target,
              buffer |-> IF target = "GL_ARRAY_BUFFER"
                         THEN st.cache.stored_vertex_buffer
                         ELSE st.cache.stored_index_buffer])

restore_buffer_binding(st, target) ==
    IF target = "GL_ARRAY_BUFFER"
    THEN bind_buffer(st, target, st.cache.stored_vertex_buffer)
    ELSE bind_buffer(st, target, st.cache.stored_index_buffer)

\* Context::new: the cache as constructed
GlCache_new ==
    [stored_index_buffer |-> 0,
     stored_vertex_buffer |-> 0,
     index_buffer |-> 0,
     vertex_buffer |-> 0,
     cur_pipeline |-> None,
     blend |-> None,
     attributes |-> [i \in 0 .. MAX_VERTEX_ATTRIBUTES - 1 |-> None]]

----------------------------------------------------------------------------
(* Pipeline::with_params *)

\* a stride that counts four bytes for every component
stride_step_by_components(stride, layout, format) ==
    IF layout.stride = 0 THEN stride + 4 * VertexFormat_size(format) ELSE layout.stride

\* first loop: the stride of one buffer slot after one more attribute
stride_step(stride, layout, format) ==
    IF layout.stride = 0 THEN stride + VertexFormat_byte_len(format) ELSE layout.stride

\* first loop: buffer_cache after the first n attributes
RECURSIVE stride_loop(_, _, _)
stride_loop(buffer_layout, attributes, n) ==
    IF n = 0
    THEN [panicked |-> FALSE,
          buffer_cache |-> [i \in 0 .. Len(buffer_layout) - 1 |-> [stride |-> 0, offset |-> 0]]]
    ELSE LET prev == stride_loop(buffer_layout, attributes, n - 1)
             a == attributes[n]
         IN  IF prev.panicked THEN prev
             ELSE IF a.buffer_index \notin DOMAIN prev.buffer_cache
                  THEN [prev EXCEPT !.panicked = TRUE]
                  ELSE [prev EXCEPT !.buffer_cache[a.buffer_index].stride =
                           stride_step(@, buffer_layout[a.buffer_index + 1], a.format)]

\* the number of layout records the attributes need
attributes_len(attributes) ==
    SumSeq([i \in 1 .. Len(attributes) |-> IF attributes[i].format = "Mat4" THEN 4 ELSE 1])

\* a divisor that is the step rate whatever the step mode
attribute_divisor_step_rate(layout) == layout.step_rate

attribute_divisor(layout) ==
    IF layout.step_func = "PerVertex" THEN 0 ELSE layout.step_rate

attributes_count(format) == IF format = "Mat4" THEN 4 ELSE 1

\* a matrix that keeps its format in its records
sub_format_kept(format) == format

sub_format(format) == IF format = "Mat4" THEN "Float4" ELSE format

\* what one layout record adds to the running offset of its buffer slot
offset_advance(format) == 4 * VertexFormat_size(format)

\* assert!(attr_loc < vertex_layout.len() as u32)
location_in_range(attr_loc, vertex_layout) == attr_loc \in DOMAIN vertex_layout

\* inner loop: records i .. attributes_count-1 of one attribute
RECURSIVE record_loop(_, _, _, _, _)
record_loop(st, a, base_loc, divisor, i) ==
    IF st.panicked \/ i >= attributes_count(a.format) THEN st
    ELSE LET format == sub_format(a.format)
             attr_loc == base_loc + i
             buffer_data == st.buffer_cache[a.buffer_index]
             attr == [attr_loc |-> attr_loc,
                      size |-> VertexFormat_size(format),
                      type_ |-> VertexFormat_type(format),
                      offset |-> buffer_data.offset,
                      stride |-> buffer_data.stride,
                      buffer_index |-> a.buffer_index,
                      divisor |-> divisor]
         IN  IF ~location_in_range(attr_loc, st.vertex_layout)
             THEN [st EXCEPT !.panicked = TRUE]
             ELSE record_loop(
                     [st EXCEPT !.vertex_layout[attr_loc] = attr,
                                !.buffer_cache[a.buffer_index].offset = @ + offset_advance(format)],
                     a, base_loc, divisor, i + 1)

\* second loop: buffer_cache and vertex_layout after the first n attributes
RECURSIVE layout_loop(_, _, _, _, _)
layout_loop(g, program, buffer_layout, attributes, n) ==
    IF n = 0
    THEN LET strides == stride_loop(buffer_layout, attributes, Len(attributes)) IN
         [panicked |-> strides.panicked,
          buffer_cache |-> strides.buffer_cache,
          vertex_layout |-> [k \in 0 .. attributes_len(attributes) - 1 |->
                                VertexAttributeInternal_default]]
    ELSE LET prev == layout_loop(g, program, buffer_layout, attributes, n - 1)
             a == attributes[n]
             attr_loc == glGetAttribLocation(g, program, a.name)
         IN  IF prev.panicked THEN prev
             ELSE IF a.buffer_index \notin DOMAIN prev.buffer_cache
                  THEN [prev EXCEPT !.panicked = TRUE]
                  ELSE IF attr_loc = -1
                       THEN [prev EXCEPT !.panicked = TRUE]
                       ELSE record_loop(prev, a, attr_loc,
                                attribute_divisor(buffer_layout[a.buffer_index + 1]), 0)

\* no check of the layout at all
layout_complete_unchecked(vertex_layout) == TRUE

\* assert!(vertex_layout.iter().any(|attr| attr.size == 0) == false)
layout_complete(vertex_layout) ==
    ~ \E k \in DOMAIN vertex_layout : vertex_layout[k].size = 0

\* a creation that registers whatever layout it has computed, failed or not
with_params_registering_failures(ps, shs, g, buffer_layout, attributes, shader, params) ==
    LET program == shs[shader + 1].program
        st == layout_loop(g, program, buffer_layout, attributes, Len(attributes))
    IN  [panicked |-> st.panicked \/ ~layout_complete(st.vertex_layout),
         pipelines |-> Append(ps, [layout |-> st.vertex_layout,
                                   shader |-> shader,
                                   params |-> params])]

\* the whole function: the registry afterwards, and whether it panicked
with_params(ps, shs, g, buffer_layout, attributes, shader, params) ==
    LET program == shs[shader + 1].program
        st == layout_loop(g, program, buffer_layout, attributes, Len(attributes))
    IN  IF st.panicked \/ ~layout_complete(st.vertex_layout)
        THEN [panicked |-> TRUE, pipelines |-> ps]
        ELSE [panicked |-> FALSE,
              pipelines |-> Append(ps, [layout |-> st.vertex_layout,
                                        shader |-> shader,
                                        params |-> params])]

----------------------------------------------------------------------------
(* Context *)

\* a blend part that enables blending whenever the pipeline blends
apply_blend_always_enable(st, color_blend) ==
    IF st.cache.blend # color_blend
    THEN LET st1 == IF is_some(color_blend)
                    THEN LET b == unwrap(color_blend)
                             st0 == Emit(st, [call |-> "glEnable", cap |-> "GL_BLEND"])
                         IN  Emit(Emit(st0, [call |-> "glBlendFunc", src |-> b[2], dst |-> b[3]]),
                                  [call |-> "glBlendEquationSeparate", rgb |-> b[1], alpha |-> b[1]])
                    ELSE IF is_some(st.cache.blend)
                         THEN Emit(st, [call |-> "glDisable", cap |-> "GL_BLEND"])
                         ELSE st
         IN  [st1 EXCEPT !.cache.blend = color_blend]
    ELSE st

\* a blend part that forgets the tracked blend state when it finds it current
apply_blend_forgetting(st, color_blend) ==
    IF st.cache.blend # color_blend
    THEN apply_blend_always_enable(st, color_blend)
    ELSE [st EXCEPT !.cache.blend = None]

\* apply_pipeline: the blend part
apply_blend(st, color_blend) ==
    IF st.cache.blend # color_blend
    THEN LET st1 == IF is_some(color_blend)
                    THEN LET b == unwrap(color_blend)
                             st0 == IF is_none(st.cache.blend)
                                    THEN Emit(st, [call |-> "glEnable", cap |-> "GL_BLEND"])
                                    ELSE st
                         IN  Emit(Emit(st0, [call |-> "glBlendFunc", src |-> b[2], dst |-> b[3]]),
                                  [call |-> "glBlendEquationSeparate", rgb |-> b[1], alpha |-> b[1]])
                    ELSE IF is_some(st.cache.blend)
                         THEN Emit(st, [call |-> "glDisable", cap |-> "GL_BLEND"])
                         ELSE st
         IN  [st1 EXCEPT !.cache.blend = color_blend]
    ELSE st

\* apply_pipeline: the depth part
apply_depth(st, params) ==
    IF params.depth_write
    THEN Emit(Emit(st, [call |-> "glEnable", cap |-> "GL_DEPTH_TEST"]),
              [call |-> "glDepthFunc", func |-> params.depth_test])
    ELSE Emit(st, [call |-> "glDisable", cap |-> "GL_DEPTH_TEST"])

apply_pipeline(st, ps, shs, pipeline) ==
    LET st0 == [st EXCEPT !.cache.cur_pipeline = Some(pipeline)]
        pip == ps[pipeline + 1]
        shader == shs[pip.shader + 1]
        st1 == Emit(Emit(st0, [call |-> "glUseProgram", program |-> shader.program]),
                    [call |-> "glEnable", cap |-> "GL_SCISSOR_TEST"])
    IN  apply_blend(apply_depth(st1, pip.params), pip.params.color_blend)

\* apply_bindings: the loop over the shader's images, from image n on
RECURSIVE bind_images(_, _, _, _)
bind_images(st, shader, bindings, n) ==
    IF n >= Len(shader.images) THEN st
    ELSE IF n >= Len(bindings.images) THEN [st EXCEPT !.panicked = TRUE]
    ELSE bind_images(
            Emit(Emit(Emit(st, [call |-> "glActiveTexture", unit |-> n]),
                      [call |-> "glBindTexture", texture |-> bindings.images[n + 1]]),
                 [call |-> "glUniform1i", location |-> shader.images[n + 1].gl_loc, value |-> n]),
            shader, bindings, n + 1)

\* a cache test that does not look at the vertex buffer
attribute_changed_ignoring_buffer(cached_attr, attribute, vb) ==
    is_none(cached_attr) \/ attribute # unwrap(cached_attr).attribute

\* apply_bindings: cached_attr.map_or(true, |c| attribute != c.attribute || c.gl_vbuf != vb.gl_buf)
attribute_changed(cached_attr, attribute, vb) ==
    \/ is_none(cached_attr)
    \/ attribute # unwrap(cached_attr).attribute
    \/ unwrap(cached_attr).gl_vbuf # vb.gl_buf

\* apply_bindings: one iteration of the loop over the attribute slots
apply_attribute(st, pip, bindings, attr_index) ==
    LET cached_attr == st.cache.attributes[attr_index] IN
    IF attr_index \in DOMAIN pip.layout
    THEN LET attribute == pip.layout[attr_index] IN
         IF attribute.buffer_index + 1 \notin DOMAIN bindings.vertex_buffers
         THEN [st EXCEPT !.panicked = TRUE]
         ELSE LET vb == bindings.vertex_buffers[attribute.buffer_index + 1] IN
              IF attribute_changed(cached_attr, attribute, vb)
              THEN LET st1 == bind_buffer(st, "GL_ARRAY_BUFFER", vb.gl_buf)
                       st2 == Emit(st1, [call |-> "glVertexAttribPointer",
                                         index |-> attr_index,
                                         size |-> attribute.size,
                                         type_ |-> attribute.type_,
                                         stride |-> attribute.stride,
                                         offset |-> attribute.offset])
                       st3 == Emit(st2, [call |-> "glVertexAttribDivisor",
                                         index |-> attr_index,
                                         divisor |-> attribute.divisor])
                       st4 == Emit(st3, [call |-> "glEnableVertexAttribArray",
                                         index |-> attr_index])
                   IN  [st4 EXCEPT !.cache.attributes[attr_index] =
                            Some([attribute |-> attribute, gl_vbuf |-> vb.gl_buf])]
              ELSE st
    ELSE IF is_some(cached_attr)
         THEN [Emit(st, [call |-> "glDisableVertexAttribArray", index |-> attr_index])
                  EXCEPT !.cache.attributes[attr_index] = None]
         ELSE st

\* a loop over the slots of the pipeline's layout alone
RECURSIVE apply_attributes_of_layout(_, _, _, _)
apply_attributes_of_layout(st, pip, bindings, attr_index) ==
    IF st.panicked \/ attr_index \notin DOMAIN pip.layout THEN st
    ELSE apply_attributes_of_layout(apply_attribute(st, pip, bindings, attr_index),
                                    pip, bindings, attr_index + 1)

\* apply_bindings: the loop over the attribute slots, from slot attr_index on
RECURSIVE apply_attributes(_, _, _, _)
apply_attributes(st, pip, bindings, attr_index) ==
    IF st.panicked \/ attr_index >= MAX_VERTEX_ATTRIBUTES THEN st
    ELSE apply_attributes(apply_attribute(st, pip, bindings, attr_index),
                          pip, bindings, attr_index + 1)

apply_bindings(st, ps, shs, bindings) ==
    IF is_none(st.cache.cur_pipeline)
    THEN [st EXCEPT !.panicked = TRUE]
    ELSE LET pip == ps[unwrap(st.cache.cur_pipeline) + 1]
             shader == shs[pip.shader + 1]
             st1 == bind_images(st, shader, bindings, 0)
         IN  IF st1.panicked THEN st1
             ELSE apply_attributes(
                     bind_buffer(st1, "GL_ELEMENT_ARRAY_BUFFER", bindings.index_buffer.gl_buf),
                     pip, bindings, 0)

\* an end of pass that also forgets the current pipeline
end_render_pass_clearing_pipeline(st, default_fb) ==
    [bind_buffer(
        bind_buffer(
            Emit(st, [call |-> "glBindFramebuffer", framebuffer |-> default_fb]),
            "GL_ARRAY_BUFFER", 0),
        "GL_ELEMENT_ARRAY_BUFFER", 0) EXCEPT !.cache.cur_pipeline = None]

\* an end of pass that leaves the framebuffer bound
end_render_pass_keeping_framebuffer(st, default_fb) ==
    bind_buffer(bind_buffer(st, "GL_ARRAY_BUFFER", 0), "GL_ELEMENT_ARRAY_BUFFER", 0)

end_render_pass(st, default_fb) ==
    bind_buffer(
        bind_buffer(
            Emit(st, [call |-> "glBindFramebuffer", framebuffer |-> default_fb]),
            "GL_ARRAY_BUFFER", 0),
        "GL_ELEMENT_ARRAY_BUFFER", 0)

\* assert!(offset < std::mem::size_of::<U>() - 4), offset counting floats and
\* size_of::<U>() bytes.  The subtraction is on usize: for a block of less than
\* 4 bytes it overflows, which panics in a build with overflow checks and wraps
\* to a value above every offset in a build without them
offset_in_block(offset, block_size, overflow_checks) ==
    IF block_size >= 4 THEN offset < block_size - 4 ELSE ~overflow_checks

\* the driver call apply_uniforms makes for one uniform type
uniform_call(uniform_type) ==
    CASE uniform_type = "Float1" -> "glUniform1fv"
      [] uniform_type = "Float2" -> "glUniform2fv"
      [] uniform_type = "Float3" -> "glUniform3fv"
      [] uniform_type = "Float4" -> "glUniform4fv"
      [] uniform_type = "Mat4" -> "glUniformMatrix4fv"

\* a running offset that counts bytes
offset_step_in_bytes(offset, uniform_type) == offset + UniformType_size(uniform_type, 1)

\* offset += uniform.uniform_type.size(1) / 4
offset_step(offset, uniform_type) == offset + UniformType_size(uniform_type, 1) \div 4

\* apply_uniforms: the loop over the shader's uniforms, from uniform k on, with
\* the running offset in floats.  data is the byte position in the caller's
\* block the driver reads from, len the number of bytes it reads
RECURSIVE uniforms_loop(_, _, _, _, _, _)
uniforms_loop(st, uniforms, block_size, overflow_checks, k, offset) ==
    IF k > Len(uniforms) THEN st
    ELSE IF ~offset_in_block(offset, block_size, overflow_checks)
    THEN [st EXCEPT !.panicked = TRUE]
    ELSE LET uniform == uniforms[k] IN
         uniforms_loop(
            Emit(st, [call |-> uniform_call(uniform.uniform_type),
                      location |-> uniform.gl_loc,
                      data |-> 4 * offset,
                      len |-> UniformType_size(uniform.uniform_type, 1)]),
            uniforms, block_size, overflow_checks, k + 1,
            offset_step(offset, uniform.uniform_type))

\* apply_uniforms::<U> with size_of::<U>() = block_size
apply_uniforms(st, ps, shs, block_size, overflow_checks) ==
    IF is_none(st.cache.cur_pipeline)
    THEN [st EXCEPT !.panicked = TRUE]
    ELSE LET pip == ps[unwrap(st.cache.cur_pipeline) + 1]
             shader == shs[pip.shader + 1]
         IN  uniforms_loop(st, shader.uniforms, block_size, overflow_checks, 1, 0)

\* the bits of the mask clear builds: one for each component that is present
clear_bits(color, depth, stencil) ==
    (IF is_some(color) THEN {"GL_COLOR_BUFFER_BIT"} ELSE {})
    \cup (IF is_some(depth) THEN {"GL_DEPTH_BUFFER_BIT"} ELSE {})
    \cup (IF is_some(stencil) THEN {"GL_STENCIL_BUFFER_BIT"} ELSE {})

\* a clear that calls glClear whatever the mask
clear_call_unguarded(st, bits) == Emit(st, [call |-> "glClear", bits |-> bits])

\* if bits != 0 { glClear(bits) }
clear_call(st, bits) ==
    IF bits # {} THEN Emit(st, [call |-> "glClear", bits |-> bits]) ELSE st

clear(st, color, depth, stencil) ==
    LET st1 == IF is_some(color)
               THEN Emit(st, [call |-> "glClearColor", color |-> unwrap(color)]) ELSE st
        st2 == IF is_some(depth)
               THEN Emit(st1, [call |-> "glClearDepthf", depth |-> unwrap(depth)]) ELSE st1
        st3 == IF is_some(stencil)
               THEN Emit(st2, [call |-> "glClearStencil", stencil |-> unwrap(stencil)]) ELSE st2
    IN  clear_call(st3, clear_bits(color, depth, stencil))

\* begin_pass: pass is None (the default framebuffer, of the window's size) or
\* Some(handle of a render pass)
begin_pass(st, pss, default_fb, screen, pass, action) ==
    LET target == IF is_none(pass)
                  THEN [framebuffer |-> default_fb, w |-> screen.width, h |-> screen.height]
                  ELSE LET p == pss[unwrap(pass) + 1] IN
                       [framebuffer |-> p.gl_fb, w |-> p.texture.width, h |-> p.texture.height]
        st1 == Emit(st, [call |-> "glBindFramebuffer", framebuffer |-> target.framebuffer])
        st2 == Emit(st1, [call |-> "glViewport", x |-> 0, y |-> 0,
                         w |-> target.w, h |-> target.h])
        st3 == Emit(st2, [call |-> "glScissor", x |-> 0, y |-> 0,
                         w |-> target.w, h |-> target.h])
    IN  IF action.kind = "Nothing" THEN st3
        ELSE clear(st3, action.color, action.depth, action.stencil)

\* the i32 product 2 * base_element, wrapped to 32 bits where it overflows
wrapping_double(base_element) ==
    IF base_element >= 1073741824 THEN 2 * ((base_element - 1073741824) - 1073741824)
    ELSE IF base_element < -1073741824 THEN 2 * ((base_element + 1073741824) + 1073741824)
    ELSE 2 * base_element

double_overflows(base_element) ==
    base_element >= 1073741824 \/ base_element < -1073741824

\* draw: 2 * base_element is an i32 product; where it overflows, a build with
\* overflow checks panics and a build without them passes the wrapped product
draw(st, base_element, num_elements, num_instances, overflow_checks) ==
    IF double_overflows(base_element) /\ overflow_checks
    THEN [st EXCEPT !.panicked = TRUE]
    ELSE Emit(st, [call |-> "glDrawElementsInstanced",
                   mode |-> "GL_TRIANGLES",
                   count |-> num_elements,
                   type_ |-> "GL_UNSIGNED_SHORT",
                   indices |-> wrapping_double(base_element),
                   instancecount |-> num_instances])

----------------------------------------------------------------------------
(* RenderPass *)

\* RenderPass::new: the state afterwards and the registry with the new pass
RenderPass_new(st, pss, g, default_fb, color_img, depth_img) ==
    LET gl_fb == g.gen_framebuffers + 1
        st1 == Emit(st, [call |-> "glGenFramebuffers", framebuffer |-> gl_fb])
        st2 == Emit(st1, [call |-> "glBindTexture", texture |-> color_img.texture])
        st3 == Emit(st2, [call |-> "glBindFramebuffer", framebuffer |-> gl_fb])
        st4 == Emit(st3, [call |-> "glFramebufferTexture2D",
                          attachment |-> "GL_COLOR_ATTACHMENT0",
                          texture |-> color_img.texture])
        st5 == IF is_some(depth_img)
               THEN Emit(st4, [call |-> "glFramebufferTexture2D",
                               attachment |-> "GL_DEPTH_ATTACHMENT",
                               texture |-> unwrap(depth_img).texture])
               ELSE st4
        st6 == Emit(st5, [call |-> "glBindFramebuffer", framebuffer |-> default_fb])
    IN  [st |-> st6, passes |-> Append(pss, [gl_fb |-> gl_fb, texture |-> color_img])]

----------------------------------------------------------------------------
(* Shader *)

\* get_uniform_location: the location, or -1, on which the caller's assert fails
get_uniform_location(source, name) ==
    IF \E e \in source.uniforms : e[1] = name
    THEN (CHOOSE e \in source.uniforms : e[1] = name)[2]
    ELSE -1

\* load_shader_internal: the accumulator of the scan after the first k uniforms
RECURSIVE scan_offset(_, _)
scan_offset(uniforms, k) ==
    IF k = 0 THEN 0
    ELSE scan_offset(uniforms, k - 1) + UniformType_size(uniforms[k][2], 1)

\* load_shader_internal: the ShaderUniform records the scan collects
load_uniforms(source, uniforms) ==
    [k \in DOMAIN uniforms |->
        [gl_loc |-> get_uniform_location(source, uniforms[k][1]),
         offset |-> scan_offset(uniforms, k - 1),
         size |-> UniformType_size(uniforms[k][2], 1),
         uniform_type |-> uniforms[k][2]]]

\* a creation that registers the shader before it resolves the uniform names
Shader_new_registering_failures(st, shs, g, source, meta) ==
    LET program == Len(g.programs) + 1
        unresolved == \/ \E i \in DOMAIN meta.images :
                             get_uniform_location(source, meta.images[i]) = -1
                      \/ \E k \in DOMAIN meta.uniforms :
                             get_uniform_location(source, meta.uniforms[k][1]) = -1
    IN  [st |-> [Emit(Emit(st, [call |-> "glLinkProgram", program |-> program,
                                attributes |-> source.attributes]),
                      [call |-> "glUseProgram", program |-> program])
                    EXCEPT !.panicked = ~source.links \/ unresolved],
         shaders |-> Append(shs,
             [program |-> program,
              images |-> [i \in DOMAIN meta.images |->
                             [gl_loc |-> get_uniform_location(source, meta.images[i])]],
              uniforms |-> load_uniforms(source, meta.uniforms)])]

\* load_shader_internal, then the push of Shader::new
Shader_new(st, shs, g, source, meta) ==
    LET program == Len(g.programs) + 1
        unresolved == \/ \E i \in DOMAIN meta.images :
                             get_uniform_location(source, meta.images[i]) = -1
                      \/ \E k \in DOMAIN meta.uniforms :
                             get_uniform_location(source, meta.uniforms[k][1]) = -1
    IN  IF ~source.links \/ unresolved
        THEN [st |-> [st EXCEPT !.panicked = TRUE], shaders |-> shs]
        ELSE [st |-> Emit(Emit(st, [call |-> "glLinkProgram", program |-> program,
                                    attributes |-> source.attributes]),
                          [call |-> "glUseProgram", program |-> program]),
              shaders |-> Append(shs,
                  [program |-> program,
                   images |-> [i \in DOMAIN meta.images |->
                                  [gl_loc |-> get_uniform_location(source, meta.images[i])]],
                   uniforms |-> load_uniforms(source, meta.uniforms)])]

----------------------------------------------------------------------------
(* Buffer *)

gl_buffer_target(buffer_type) ==
    IF buffer_type = "VertexBuffer" THEN "GL_ARRAY_BUFFER" ELSE "GL_ELEMENT_ARRAY_BUFFER"

\* Buffer::immutable: data of `size` bytes
Buffer_immutable(st, g, buffer_type, size) ==
    LET gl_target == gl_buffer_target(buffer_type)
        gl_buf == g.gen_buffers + 1
        st1 == Emit(st, [call |-> "glGenBuffers", buffer |-> gl_buf])
        st2 == store_buffer_binding(st1, gl_target)
        st3 == bind_buffer(st2, gl_target, gl_buf)
        st4 == Emit(st3, [call |-> "glBufferData", target |-> gl_target, size |-> size,
                          usage |-> "GL_STATIC_DRAW"])
        st5 == Emit(st4, [call |-> "glBufferSubData", target |-> gl_target, size |-> size])
    IN  [st |-> restore_buffer_binding(st5, gl_target),
         buffer |-> [gl_buf |-> gl_buf, buffer_type |-> buffer_type, size |-> size]]

Buffer_stream(st, g, buffer_type, size) ==
    LET gl_target == gl_buffer_target(buffer_type)
        gl_buf == g.gen_buffers + 1
        st1 == Emit(st, [call |-> "glGenBuffers", buffer |-> gl_buf])
        st2 == store_buffer_binding(st1, gl_target)
        st3 == bind_buffer(st2, gl_target, gl_buf)
        st4 == Emit(st3, [call |-> "glBufferData", target |-> gl_target, size |-> size,
                          usage |-> "GL_STREAM_DRAW"])
    IN  [st |-> restore_buffer_binding(st4, gl_target),
         buffer |-> [gl_buf |-> gl_buf, buffer_type |-> buffer_type, size |-> size]]

\* an assert that rejects a payload of exactly the capacity
update_fits_strict(size, capacity) == size < capacity

\* assert!(size <= self.size)
update_fits(size, capacity) == size <= capacity

\* Buffer::update: data of `size` bytes
Buffer_update(st, self, size) ==
    IF ~update_fits(size, self.size)
    THEN [st EXCEPT !.panicked = TRUE]
    ELSE LET gl_target == gl_buffer_target(self.buffer_type)
             st1 == bind_buffer(st, gl_target, self.gl_buf)
             st2 == Emit(st1, [call |-> "glBufferSubData", target |-> gl_target, size |-> size])
         IN  restore_buffer_binding(st2, gl_target)

----------------------------------------------------------------------------
(* The latest operations, as far as they repeat one pipeline and one bindings *)

\* n: the number of latest operations that form a prefix of
\*    apply_pipeline(P), apply_bindings(B), apply_pipeline(P), apply_bindings(B);
\* b: after the third of them, the bindings B of the second (before that the
\*    last operation holds B, and P is always the cache's current pipeline);
\* ended: FALSE wherever the P,B,P,B pattern is followed
run_none == [n |-> 0, b |-> None, ended |-> FALSE]

run_after_pipeline(r, l, c, pipeline) ==
    IF r.n \in {2, 4} /\ c.cur_pipeline = Some(pipeline)
    THEN [n |-> 3, b |-> Some(l.bindings), ended |-> FALSE]
    ELSE [n |-> 1, b |-> None, ended |-> FALSE]

run_after_bindings(r, bindings) ==
    IF r.n = 1 THEN [n |-> 2, b |-> None, ended |-> FALSE]
    ELSE IF r.n = 3
         THEN IF r.b = Some(bindings)
              THEN [n |-> 4, b |-> None, ended |-> FALSE]
              ELSE [n |-> 2, b |-> None, ended |-> FALSE]
         ELSE run_none

\* what the caller has done so far: pipeline_applied, an apply_pipeline has
\* completed since Context::new; bindings_applied, an apply_bindings has
\* completed since Context::new and since the last end_render_pass
usage_none == [pipeline_applied |-> FALSE, bindings_applied |-> FALSE]

usage_after(u, op, failed) ==
    IF failed THEN u
    ELSE IF op = "apply_pipeline" THEN [u EXCEPT !.pipeline_applied = TRUE]
    ELSE IF op = "apply_bindings" THEN [u EXCEPT !.bindings_applied = TRUE]
    ELSE IF op = "end_render_pass" THEN [u EXCEPT !.bindings_applied = FALSE]
    ELSE u

----------------------------------------------------------------------------
(* The callers' inputs *)

Attr(name, format, buffer_index) ==
    [name |-> name, format |-> format, buffer_index |-> buffer_index]

PerInstance(step_rate) == [stride |-> 0, step_func |-> "PerInstance", step_rate |-> step_rate]

BlendAlpha == <<"Add", "SourceAlpha", "OneMinusSourceAlpha">>
BlendAdditive == <<"Add", "One", "One">>

\* vertex shaders by the attribute locations their linked program exposes
\* (a mat4 attribute takes four consecutive locations from the one listed)
SceneSource ==
    [attributes |-> {<<"pos", 0>>, <<"uv", 1>>, <<"model", 2>>},
     uniforms |-> {<<"tex", 0>>}, links |-> TRUE]

InstancedSource ==
    [attributes |-> {<<"model", 0>>, <<"pos", 4>>, <<"uv", 5>>},
     uniforms |-> {<<"tex", 0>>}, links |-> TRUE]

MatName(i) == "m" \o ToString(i)

MatricesSource ==
    [attributes |-> {<<MatName(i), 4 * i>> : i \in 0 .. MaxMats - 1},
     uniforms |-> {<<"tex", 0>>}, links |-> TRUE]

SceneMeta == [uniforms |-> <<>>, images |-> <<"tex">>]

\* pipelines of the scene, in the order the scene creates them: the arguments
\* of Pipeline::with_params
PipelineMenu ==
    <<[buffer_layout |-> <<BufferLayout_default>>,
      attributes |-> <<Attr("pos", "Float3", 0)>>,
      params |-> PipelineParams_default],
     [buffer_layout |-> <<BufferLayout_default, BufferLayout_default>>,
      attributes |-> <<Attr("pos", "Float3", 0), Attr("uv", "Float2", 1)>>,
      params |-> [PipelineParams_default EXCEPT !.color_blend = Some(BlendAlpha),
                                                !.depth_write = TRUE]],
     [buffer_layout |-> <<BufferLayout_default, PerInstance(1)>>,
      attributes |-> <<Attr("pos", "Float2", 0), Attr("uv", "Float2", 0),
                       Attr("model", "Mat4", 1)>>,
      params |-> [PipelineParams_default EXCEPT !.color_blend = Some(BlendAdditive)]]>>

SeqsUpTo(S, n) == UNION {[1 .. k -> S] : k \in 0 .. n}

\* inputs of the layout computation: short attribute lists of every shape ...
InputNames == {"pos", "uv", "model", "color"}
InputFormats == {"Float1", "Float3", "Byte2", "Mat4"}

BufferLayoutMenu ==
    {<<BufferLayout_default>>,
     <<BufferLayout_default, PerInstance(2)>>,
     <<[stride |-> 20, step_func |-> "PerVertex", step_rate |-> 3],
       [stride |-> 80, step_func |-> "PerInstance", step_rate |-> 1]>>,
     <<[stride |-> 24, step_func |-> "PerInstance", step_rate |-> 3]>>}

ShortLists ==
    SeqsUpTo({Attr(n, f, b) : n \in InputNames, f \in InputFormats, b \in 0 .. 1}, MaxAttrs)

\* ... and lists of matrices, one per matrix attribute of MatricesSource
MatLists == {[i \in 1 .. k |-> Attr(MatName(i - 1), "Mat4", 0)] : k \in 1 .. MaxMats}

PipelineInputs ==
    {[buffer_layout |-> bl, attributes |-> as, params |-> PipelineParams_default] :
        bl \in BufferLayoutMenu, as \in ShortLists \cup MatLists}

BufferSet == {buffers[i] : i \in DOMAIN buffers}

BuffersOfType(buffer_type) == {b \in BufferSet : b.buffer_type = buffer_type}

\* Bindings over the buffers created so far: vertex buffers for up to two
\* buffer slots, an index buffer, and the texture the scene shader samples
BindingsInputs ==
    {[vertex_buffers |-> vbs, index_buffer |-> ib, images |-> imgs] :
        vbs \in SeqsUpTo(BuffersOfType("VertexBuffer"), 2) \ {<<>>},
        ib \in BuffersOfType("IndexBuffer"),
        imgs \in {<<1>>}}

----------------------------------------------------------------------------
(* The operations *)

Init ==
    /\ shaders = <<>>
    /\ pipelines = <<>>
    /\ passes = <<>>
    /\ default_framebuffer = 0
    /\ cache = GlCache_new
    /\ buffers = <<>>
    /\ gl = GlInitial
    /\ calls = <<>>
    /\ last = [op |-> "new"]
    /\ usage = usage_none
    /\ run = run_none
    /\ panicked = FALSE

\* the effect of an operation that ended in state st of the cache and the calls
Done(st, op, r) ==
    /\ cache' = st.cache
    /\ calls' = st.calls
    /\ panicked' = st.panicked
    /\ gl' = GlRun(gl, st.calls)
    /\ last' = op
    /\ usage' = usage_after(usage, op.op, st.panicked)
    /\ run' = r

ShaderNewFrom(sources) ==
    /\ ~panicked
    /\ shaders = <<>>
    /\ \E source \in sources :
         LET r == Shader_new(Enter(cache), shaders, gl, source, SceneMeta) IN
         /\ shaders' = r.shaders
         /\ Done(r.st, [op |-> "Shader::new", source |-> source], run_none)
    /\ UNCHANGED <<pipelines, passes, default_framebuffer, buffers>>

ShaderNew == ShaderNewFrom({SceneSource})

PipelineNewFrom(inputs) ==
    /\ ~panicked
    /\ \E in \in inputs, shader \in 0 .. Len(shaders) - 1 :
         LET r == with_params(pipelines, shaders, gl, in.buffer_layout, in.attributes,
                              shader, in.params)
         IN  /\ pipelines' = r.pipelines
             /\ Done([Enter(cache) EXCEPT !.panicked = r.panicked],
                     [op |-> "with_params", buffer_layout |-> in.buffer_layout,
                      attributes |-> in.attributes, shader |-> shader, params |-> in.params],
                     run_none)
    /\ UNCHANGED <<shaders, passes, default_framebuffer, buffers>>

PipelineNew ==
    PipelineNewFrom(IF Len(pipelines) < Len(PipelineMenu)
                    THEN {PipelineMenu[Len(pipelines) + 1]}
                    ELSE {})

ApplyPipeline ==
    /\ ~panicked
    /\ \E pipeline \in 0 .. Len(pipelines) - 1 :
         Done(apply_pipeline(Enter(cache), pipelines, shaders, pipeline),
              [op |-> "apply_pipeline", pipeline |-> pipeline],
              run_after_pipeline(run, last, cache, pipeline))
    /\ UNCHANGED <<shaders, pipelines, passes, default_framebuffer, buffers>>

ApplyBindings ==
    /\ ~panicked
    /\ \E bindings \in BindingsInputs :
         Done(apply_bindings(Enter(cache), pipelines, shaders, bindings),
              [op |-> "apply_bindings", bindings |-> bindings],
              run_after_bindings(run, bindings))
    /\ UNCHANGED <<shaders, pipelines, passes, default_framebuffer, buffers>>

EndRenderPass ==
    /\ ~panicked
    /\ Done(end_render_pass(Enter(cache), default_framebuffer),
            [op |-> "end_render_pass"], run_none)
    /\ UNCHANGED <<shaders, pipelines, passes, default_framebuffer, buffers>>

\* the scene creates its buffers in turn: a vertex buffer, an index buffer, ...
SceneBufferTypes == {IF Len(buffers) % 2 = 0 THEN "VertexBuffer" ELSE "IndexBuffer"}

\* Buffer::immutable of one of the given types, leaving the monitor at m
BufferImmutableOf(buffer_types, m) ==
    /\ ~panicked
    /\ Len(buffers) < MaxBuffers
    /\ \E buffer_type \in buffer_types, size \in {MaxSize} :
         LET r == Buffer_immutable(Enter(cache), gl, buffer_type, size) IN
         /\ buffers' = Append(buffers, r.buffer)
         /\ Done(r.st, [op |-> "Buffer::immutable", buffer |-> r.buffer], m)
    /\ UNCHANGED <<shaders, pipelines, passes, default_framebuffer>>

BufferImmutable == BufferImmutableOf(SceneBufferTypes, run_none)

BufferStreamOf(buffer_types, m) ==
    /\ ~panicked
    /\ Len(buffers) < MaxBuffers
    /\ \E buffer_type \in buffer_types, size \in {MaxSize} :
         LET r == Buffer_stream(Enter(cache), gl, buffer_type, size) IN
         /\ buffers' = Append(buffers, r.buffer)
         /\ Done(r.st, [op |-> "Buffer::stream", buffer |-> r.buffer], m)
    /\ UNCHANGED <<shaders, pipelines, passes, default_framebuffer>>

BufferStream == BufferStreamOf(SceneBufferTypes, run_none)

BufferUpdateOf(sizes, m) ==
    /\ ~panicked
    /\ \E self \in BufferSet, size \in sizes :
         Done(Buffer_update(Enter(cache), self, size),
              [op |-> "Buffer::update", buffer |-> self, size |-> size], m)
    /\ UNCHANGED <<shaders, pipelines, passes, default_framebuffer, buffers>>

BufferUpdate == BufferUpdateOf(0 .. MaxSize + 1, run_none)

Next ==
    \/ ShaderNew
    \/ PipelineNew
    \/ ApplyPipeline
    \/ ApplyBindings
    \/ EndRenderPass
    \/ BufferImmutable
    \/ BufferStream
    \/ BufferUpdate

Spec == Init /\ [][Next]_vars

----------------------------------------------------------------------------
(* The layout computation alone: one shader, one Pipeline::with_params *)

ShaderNewAny == ShaderNewFrom({SceneSource, InstancedSource, MatricesSource})

PipelineCompile == pipelines = <<>> /\ PipelineNewFrom(PipelineInputs)

NextPipe ==
    \/ ShaderNewAny
    \/ PipelineCompile

SpecPipe == Init /\ [][NextPipe]_vars

----------------------------------------------------------------------------
(* A frame: shaders with uniform blocks, render passes, uniforms and draws *)

\* the program of the frame's shaders: one vertex attribute, the sampler and
\* the uniforms it exposes
FrameSource ==
    [attributes |-> {<<"pos", 0>>},
     uniforms |-> {<<"tex", 0>>, <<"mvp", 1>>, <<"tint", 2>>, <<"dir", 3>>,
                   <<"scale", 4>>, <<"offs", 5>>},
     links |-> TRUE]

\* the ShaderMeta of the frame's shaders, in the order the frame creates them
FrameMetas ==
    <<[uniforms |-> <<<<"mvp", "Mat4">>, <<"tint", "Float4">>>>, images |-> <<"tex">>],
      [uniforms |-> <<<<"dir", "Float3">>, <<"scale", "Float1">>, <<"offs", "Float2">>,
                      <<"tint", "Float4">>>>,
       images |-> <<"tex">>]>>

\* a ShaderMeta that declares a uniform the program does not expose
BrokenMeta ==
    [uniforms |-> <<<<"mvp", "Mat4">>, <<"fog", "Float1">>>>, images |-> <<"tex">>]

\* the pipeline of the frame, and one that names an attribute the program lacks
FramePipelines ==
    {PipelineMenu[1],
     [PipelineMenu[1] EXCEPT !.attributes = <<Attr("color", "Float3", 0)>>]}

\* the window's size (sapp_width, sapp_height) and the textures of the passes
Screen == [width |-> 8, height |-> 6]
ColorTexture == [texture |-> 1, width |-> 4, height |-> 4]
DepthTexture == [texture |-> 2, width |-> 4, height |-> 4]

PassAction_Nothing == [kind |-> "Nothing"]
PassAction_default ==
    [kind |-> "Clear", color |-> Some(<<0, 0, 0, 0>>), depth |-> Some(1), stencil |-> None]

\* the actions the frame begins its passes with: nothing, the default clear, a
\* clear of nothing, of the stencil alone and of all three components
PassActions ==
    {PassAction_Nothing,
     PassAction_default,
     [kind |-> "Clear", color |-> None, depth |-> None, stencil |-> None],
     [kind |-> "Clear", color |-> None, depth |-> None, stencil |-> Some(0)],
     [kind |-> "Clear", color |-> Some(<<1, 0, 0, 1>>), depth |-> Some(0), stencil |-> Some(7)]}

\* size_of::<U>() of the blocks the caller passes to apply_uniforms
UniformBlockSizes == {0, 16, 40, 80}

\* base_element of the draws: up to the largest with 2 * base_element in i32,
\* and the first beyond it
DrawBases == {0, 3, 1073741823, 1073741824}

ShaderNewFrame ==
    /\ ~panicked
    /\ Len(shaders) < Len(FrameMetas)
    /\ \E meta \in {FrameMetas[Len(shaders) + 1], BrokenMeta} :
         LET r == Shader_new(Enter(cache), shaders, gl, FrameSource, meta) IN
         /\ shaders' = r.shaders
         /\ Done(r.st, [op |-> "Shader::new", source |-> FrameSource, meta |-> meta,
                        handle |-> Len(r.shaders) - 1], run_none)
    /\ UNCHANGED <<pipelines, passes, default_framebuffer, buffers>>

\* the frame creates one pipeline for each of its shaders, in their order
PipelineFrame ==
    /\ ~panicked
    /\ Len(pipelines) < Len(shaders)
    /\ \E in \in FramePipelines :
         LET shader == Len(pipelines)
             r == with_params(pipelines, shaders, gl, in.buffer_layout, in.attributes,
                              shader, in.params)
         IN  /\ pipelines' = r.pipelines
             /\ Done([Enter(cache) EXCEPT !.panicked = r.panicked],
                     [op |-> "with_params", buffer_layout |-> in.buffer_layout,
                      attributes |-> in.attributes, shader |-> shader, params |-> in.params,
                      handle |-> Len(r.pipelines) - 1],
                     run_none)
    /\ UNCHANGED <<shaders, passes, default_framebuffer, buffers>>

RenderPassNew ==
    /\ ~panicked
    /\ Len(passes) < MaxPasses
    /\ \E depth_img \in {None, Some(DepthTexture)} :
         LET r == RenderPass_new(Enter(cache), passes, gl, default_framebuffer,
                                 ColorTexture, depth_img)
         IN  /\ passes' = r.passes
             /\ Done(r.st, [op |-> "RenderPass::new", color_img |-> ColorTexture,
                            depth_img |-> depth_img, handle |-> Len(r.passes) - 1],
                     run_none)
    /\ UNCHANGED <<shaders, pipelines, default_framebuffer, buffers>>

\* the frame creates a vertex buffer and an index buffer
FrameBuffer ==
    /\ BuffersOfType("IndexBuffer") = {}
    /\ BufferImmutable

BeginPass ==
    /\ ~panicked
    /\ \E pass \in {None} \cup {Some(i) : i \in 0 .. Len(passes) - 1},
          action \in PassActions :
         Done(begin_pass(Enter(cache), passes, default_framebuffer, Screen, pass, action),
              [op |-> "begin_pass", pass |-> pass, action |-> action], run_none)
    /\ UNCHANGED <<shaders, pipelines, passes, default_framebuffer, buffers>>

\* apply_uniforms::<U> with size_of::<U>() one of the given sizes
ApplyUniformsOf(block_sizes) ==
    /\ ~panicked
    /\ \E block_size \in block_sizes, overflow_checks \in BOOLEAN :
         Done(apply_uniforms(Enter(cache), pipelines, shaders, block_size, overflow_checks),
              [op |-> "apply_uniforms", block_size |-> block_size,
               overflow_checks |-> overflow_checks], run_none)
    /\ UNCHANGED <<shaders, pipelines, passes, default_framebuffer, buffers>>

ApplyUniforms == ApplyUniformsOf(UniformBlockSizes)

\* a draw from one of the given base elements, leaving the monitor at m
DrawFrom(bases, m) ==
    /\ ~panicked
    /\ \E base_element \in bases, overflow_checks \in BOOLEAN :
         Done(draw(Enter(cache), base_element, 6, 2, overflow_checks),
              [op |-> "draw", base_element |-> base_element, num_elements |-> 6,
               num_instances |-> 2, overflow_checks |-> overflow_checks], m)
    /\ UNCHANGED <<shaders, pipelines, passes, default_framebuffer, buffers>>

Draw == DrawFrom(DrawBases, run_none)

NextFrame ==
    \/ ShaderNewFrame
    \/ PipelineFrame
    \/ RenderPassNew
    \/ FrameBuffer
    \/ BeginPass
    \/ ApplyPipeline
    \/ ApplyBindings
    \/ ApplyUniforms
    \/ Draw
    \/ EndRenderPass

SpecFrame == Init /\ [][NextFrame]_vars

----------------------------------------------------------------------------
(* A pass: bindings, buffer creations and updates, draws and the end of the
   pass.  Here the monitor holds, in b, the bindings of the latest completed
   apply_bindings as long as the pipeline they were applied under stays the
   current one, and ended tells that an end_render_pass has followed them *)

held_after_bindings(bindings, failed) ==
    IF failed THEN run_none ELSE [n |-> 0, b |-> Some(bindings), ended |-> FALSE]

held_after_pipeline(r, c, pipeline) ==
    IF c.cur_pipeline = Some(pipeline) THEN r ELSE run_none

held_after_end(r) == [r EXCEPT !.ended = is_some(r.b)]

\* the pass uses the first two pipelines of the scene
PassPipeline == Len(pipelines) < 2 /\ PipelineNew

\* the pass creates buffers of either type, in any order
PassBufferImmutable == BufferImmutableOf({"VertexBuffer", "IndexBuffer"}, run)

PassBufferStream == BufferStreamOf({"VertexBuffer", "IndexBuffer"}, run)

PassBufferUpdate == BufferUpdateOf({MaxSize, MaxSize + 1}, run)

PassApplyPipeline ==
    /\ ~panicked
    /\ \E pipeline \in 0 .. Len(pipelines) - 1 :
         Done(apply_pipeline(Enter(cache), pipelines, shaders, pipeline),
              [op |-> "apply_pipeline", pipeline |-> pipeline],
              held_after_pipeline(run, cache, pipeline))
    /\ UNCHANGED <<shaders, pipelines, passes, default_framebuffer, buffers>>

PassApplyBindings ==
    /\ ~panicked
    /\ \E bindings \in BindingsInputs :
         LET st == apply_bindings(Enter(cache), pipelines, shaders, bindings) IN
         Done(st, [op |-> "apply_bindings", bindings |-> bindings],
              held_after_bindings(bindings, st.panicked))
    /\ UNCHANGED <<shaders, pipelines, passes, default_framebuffer, buffers>>

PassDraw == DrawFrom({0}, run)

PassEnd ==
    /\ ~panicked
    /\ Done(end_render_pass(Enter(cache), default_framebuffer),
            [op |-> "end_render_pass"], held_after_end(run))
    /\ UNCHANGED <<shaders, pipelines, passes, default_framebuffer, buffers>>

NextPass ==
    \/ ShaderNew
    \/ PassPipeline
    \/ PassBufferImmutable
    \/ PassBufferStream
    \/ PassBufferUpdate
    \/ PassApplyPipeline
    \/ PassApplyBindings
    \/ PassDraw
    \/ PassEnd

SpecPass == Init /\ [][NextPass]_vars

----------------------------------------------------------------------------
(* Uniform blocks: one shader with a short list of uniforms, its pipeline, and
   blocks around the size the uniforms declare *)

\* the uniform lists of the shader, from none to a matrix and a scalar
BlockMetas ==
    {[uniforms |-> us, images |-> <<"tex">>] :
        us \in {<<>>,
                <<<<"scale", "Float1">>>>,
                <<<<"offs", "Float2">>>>,
                <<<<"scale", "Float1">>, <<"offs", "Float2">>>>,
                <<<<"dir", "Float3">>, <<"scale", "Float1">>>>,
                <<<<"mvp", "Mat4">>>>,
                <<<<"mvp", "Mat4">>, <<"scale", "Float1">>>>}}

\* size_of::<U>() of the blocks: the sums the lists declare, 4 bytes more, and
\* sizes under 4 bytes
BlockSizes == {0, 3, 4, 8, 12, 16, 20, 64, 68, 72}

BlockShader ==
    /\ ~panicked
    /\ shaders = <<>>
    /\ \E meta \in BlockMetas :
         LET r == Shader_new(Enter(cache), shaders, gl, FrameSource, meta) IN
         /\ shaders' = r.shaders
         /\ Done(r.st, [op |-> "Shader::new", source |-> FrameSource, meta |-> meta,
                        handle |-> Len(r.shaders) - 1], run_none)
    /\ UNCHANGED <<pipelines, passes, default_framebuffer, buffers>>

NextBlock ==
    \/ BlockShader
    \/ PipelineFrame
    \/ ApplyPipeline
    \/ ApplyUniformsOf(BlockSizes)

SpecBlock == Init /\ [][NextBlock]_vars

----------------------------------------------------------------------------
(* Properties *)

IsBufferBind(c) == c.call = "glBindBuffer"

AttributeCalls == {"glVertexAttribPointer", "glVertexAttribDivisor",
                   "glEnableVertexAttribArray", "glDisableVertexAttribArray"}

IsAttributeCall(c) == c.call \in AttributeCalls

Target(buffer) == gl_buffer_target(buffer.buffer_type)

TrackedBinding(c, target) ==
    IF target = "GL_ARRAY_BUFFER" THEN c.vertex_buffer ELSE c.index_buffer

DriverBinding(g, target) ==
    IF target = "GL_ARRAY_BUFFER" THEN g.array_buffer ELSE g.element_array_buffer

\* C1: when the latest four operations are apply_pipeline(P), apply_bindings(B),
\* apply_pipeline(P), apply_bindings(B) and the last of them completed, it
\* issued no buffer bind (vertex or index target) and no attribute pointer,
\* divisor, enable or disable call.
C1_SecondApplyIsCacheHit ==
    (run.n = 4 /\ ~panicked) =>
        /\ Len(SelectSeq(calls, IsBufferBind)) = 0
        /\ Len(SelectSeq(calls, IsAttributeCall)) = 0

\* C1 witness: the repeated pair used the six-record pipeline with two
\* different vertex buffers, and the second apply_bindings completed
C1_Witness ==
    /\ run.n = 4 /\ ~panicked
    /\ last.op = "apply_bindings"
    /\ Len(last.bindings.vertex_buffers) = 2
    /\ last.bindings.vertex_buffers[1] # last.bindings.vertex_buffers[2]
    /\ cache.cur_pipeline = Some(2)

\* C2: every Buffer::update leaves the tracked binding and the driver's binding
\* of the updated buffer's target as they were before the call.
C2_UpdateKeepsBinding ==
    [][last'.op = "Buffer::update" =>
          LET target == Target(last'.buffer) IN
          /\ TrackedBinding(cache', target) = TrackedBinding(cache, target)
          /\ DriverBinding(gl', target) = DriverBinding(gl, target)]_vars

\* C3: every Buffer::immutable and Buffer::stream leaves the tracked binding and
\* the driver's binding of the new buffer's target as they were before the call,
\* and leaves the tracked binding of the other target alone.
C3_CreationKeepsBindings ==
    [][last'.op \in {"Buffer::immutable", "Buffer::stream"} =>
          LET target == Target(last'.buffer) IN
          /\ TrackedBinding(cache', target) = TrackedBinding(cache, target)
          /\ DriverBinding(gl', target) = DriverBinding(gl, target)
          /\ cache'.vertex_buffer = cache.vertex_buffer
          /\ cache'.index_buffer = cache.index_buffer]_vars

\* C3 witness: a vertex buffer was created while another vertex buffer and an
\* index buffer were bound
C3_Witness ==
    /\ last.op \in {"Buffer::immutable", "Buffer::stream"}
    /\ last.buffer.buffer_type = "VertexBuffer"
    /\ cache.vertex_buffer \notin {0, last.buffer.gl_buf}
    /\ cache.index_buffer # 0
    /\ gl.array_buffer = cache.vertex_buffer

IsBlendCall(c) ==
    \/ c.call \in {"glBlendFunc", "glBlendEquationSeparate"}
    \/ c.call \in {"glEnable", "glDisable"} /\ c.cap = "GL_BLEND"

BlendEnable == [call |-> "glEnable", cap |-> "GL_BLEND"]
BlendDisable == [call |-> "glDisable", cap |-> "GL_BLEND"]
BlendFunc(b) == [call |-> "glBlendFunc", src |-> b[2], dst |-> b[3]]
BlendEquation(b) == [call |-> "glBlendEquationSeparate", rgb |-> b[1], alpha |-> b[1]]

\* C4: apply_pipeline with cached blend state c and pipeline blend state p
\* issues, of the blend calls: enable, function, equation in this order when c
\* is none and p is some; one disable when c is some and p is none; none when
\* c = p; function and equation alone when both are some and differ.  The
\* cached blend state is p afterwards.
C4_BlendTransitions ==
    [][last'.op = "apply_pipeline" =>
          LET c == cache.blend
              p == pipelines[last'.pipeline + 1].params.color_blend
              issued == SelectSeq(calls', IsBlendCall)
          IN  /\ (is_none(c) /\ is_some(p)) =>
                    issued = <<BlendEnable, BlendFunc(unwrap(p)), BlendEquation(unwrap(p))>>
              /\ (is_some(c) /\ is_none(p)) => issued = <<BlendDisable>>
              /\ (c = p) => issued = <<>>
              /\ (is_some(c) /\ is_some(p) /\ c # p) =>
                    issued = <<BlendFunc(unwrap(p)), BlendEquation(unwrap(p))>>
              /\ cache'.blend = p]_vars

\* C4 witness: an apply_pipeline changed the blend function without enabling
\* or disabling blending (both states some, and different)
C4_Witness ==
    /\ last.op = "apply_pipeline"
    /\ \E i \in DOMAIN calls : calls[i].call = "glBlendFunc"
    /\ \A i \in DOMAIN calls : calls[i] \notin {BlendEnable, BlendDisable}
    /\ gl.blend

\* C5: Buffer::update on a buffer of capacity C fails exactly when the payload
\* is larger than C; when it fails it has issued no driver call and the cache
\* (and with it the driver's state) is unchanged.
C5_UpdateCapacity ==
    [][last'.op = "Buffer::update" =>
          /\ panicked' <=> (last'.size > last'.buffer.size)
          /\ panicked' => (calls' = <<>> /\ cache' = cache /\ gl' = gl)
          /\ ~panicked' => \E i \in DOMAIN calls' : calls'[i].call = "glBufferSubData"]_vars

\* C5 witness: an update with a payload one byte over the capacity failed
C5_Witness ==
    /\ last.op = "Buffer::update"
    /\ last.size = last.buffer.size + 1
    /\ panicked

CallsAt(cs, name, i) ==
    Cardinality({k \in DOMAIN cs : cs[k].call = name /\ cs[k].index = i})

NoAttributeCallAt(cs, i) == \A name \in AttributeCalls : CallsAt(cs, name, i) = 0

\* C8: a completed apply_bindings, for each attribute slot i of the 16: when
\* the active pipeline defines i and the cache entry is absent, or holds another
\* layout record, or another vertex buffer than the bindings give for the
\* record's buffer slot, issues one pointer, one divisor and one enable call for
\* i and stores the record and the buffer in the cache; when the pipeline
\* defines i and the entry matches, issues no call for i; when the pipeline
\* does not define i and the cache holds an entry, issues one disable call for
\* i and clears the entry.
C8_AttributeRebinding ==
    [][(last'.op = "apply_bindings" /\ ~panicked') =>
          LET pip == pipelines[unwrap(cache.cur_pipeline) + 1]
              b == last'.bindings
          IN  \A i \in 0 .. MAX_VERTEX_ATTRIBUTES - 1 :
                LET entry == cache.attributes[i] IN
                IF i \in DOMAIN pip.layout
                THEN LET rec == pip.layout[i]
                         vb == b.vertex_buffers[rec.buffer_index + 1].gl_buf
                     IN  IF \/ is_none(entry)
                            \/ unwrap(entry).attribute # rec
                            \/ unwrap(entry).gl_vbuf # vb
                         THEN /\ CallsAt(calls', "glVertexAttribPointer", i) = 1
                              /\ CallsAt(calls', "glVertexAttribDivisor", i) = 1
                              /\ CallsAt(calls', "glEnableVertexAttribArray", i) = 1
                              /\ CallsAt(calls', "glDisableVertexAttribArray", i) = 0
                              /\ cache'.attributes[i] = Some([attribute |-> rec, gl_vbuf |-> vb])
                         ELSE /\ NoAttributeCallAt(calls', i)
                              /\ cache'.attributes[i] = entry
                ELSE IF is_some(entry)
                     THEN /\ CallsAt(calls', "glDisableVertexAttribArray", i) = 1
                          /\ CallsAt(calls', "glVertexAttribPointer", i) = 0
                          /\ CallsAt(calls', "glVertexAttribDivisor", i) = 0
                          /\ CallsAt(calls', "glEnableVertexAttribArray", i) = 0
                          /\ cache'.attributes[i] = None
                     ELSE /\ NoAttributeCallAt(calls', i)
                          /\ cache'.attributes[i] = None]_vars

\* C8 witness: one apply_bindings rebound a slot, left another defined slot
\* alone (its entry matched) and kept the pipeline: the same layout with another
\* vertex buffer in one buffer slot
C8_Witness ==
    /\ last.op = "apply_bindings" /\ ~panicked
    /\ CallsAt(calls, "glVertexAttribPointer", 1) = 1
    /\ NoAttributeCallAt(calls, 0)
    /\ is_some(cache.attributes[0])
    /\ unwrap(cache.attributes[0]).gl_vbuf # unwrap(cache.attributes[1]).gl_vbuf

----------------------------------------------------------------------------
(* Properties of Pipeline::with_params *)

Max(S) == CHOOSE x \in S : \A y \in S : y <= x

\* the pipeline a completed with_params has just registered
NewLayout == pipelines[Len(pipelines)].layout

\* the location the shader's program gives attribute a of a with_params call l
LocationOf(g, shs, l, a) == glGetAttribLocation(g, shs[l.shader + 1].program, a.name)

RecordsOf(a) == IF a.format = "Mat4" THEN 4 ELSE 1

\* the locations attribute a of call l resolves to
LocationsOf(g, shs, l, a) ==
    {LocationOf(g, shs, l, a) + i : i \in 0 .. RecordsOf(a) - 1}

Created == last.op = "with_params" /\ ~panicked

\* C6: in a registered pipeline, a Mat4 attribute on buffer slot b at shader
\* location L, met when the running offset of slot b is o, has the four records
\* L .. L+3, each with 4 components of float type on slot b with the slot's
\* computed stride, at offsets o, o+16, o+32, o+48; the running offset of the
\* slot after it is o+64.
C6_Mat4Expansion ==
    Created =>
        \A j \in DOMAIN last.attributes :
            LET a == last.attributes[j]
                b == a.buffer_index
                L == LocationOf(gl, shaders, last, a)
                program == shaders[last.shader + 1].program
                before == layout_loop(gl, program, last.buffer_layout, last.attributes, j - 1)
                after == layout_loop(gl, program, last.buffer_layout, last.attributes, j)
                o == before.buffer_cache[b].offset
                s == stride_loop(last.buffer_layout, last.attributes,
                                 Len(last.attributes)).buffer_cache[b].stride
            IN  a.format = "Mat4" =>
                    /\ \A i \in 0 .. 3 :
                          /\ L + i \in DOMAIN NewLayout
                          /\ NewLayout[L + i].attr_loc = L + i
                          /\ NewLayout[L + i].size = 4
                          /\ NewLayout[L + i].type_ = "GL_FLOAT"
                          /\ NewLayout[L + i].buffer_index = b
                          /\ NewLayout[L + i].stride = s
                          /\ NewLayout[L + i].offset = o + 16 * i
                    /\ after.buffer_cache[b].offset = o + 64

\* C6 witness: a registered pipeline whose Mat4 attribute follows another
\* attribute of the same buffer slot (its offset is not 0)
C6_Witness ==
    /\ Created
    /\ \E j \in DOMAIN last.attributes :
          /\ last.attributes[j].format = "Mat4"
          /\ NewLayout[LocationOf(gl, shaders, last, last.attributes[j])].offset > 0

ClaimedByteLen(format) == IF format = "Mat4" THEN 64 ELSE VertexFormat_byte_len(format)

\* the sum of the byte lengths of the attributes assigned to buffer slot b
SlotByteLen(attributes, b) ==
    SumSeq([j \in DOMAIN attributes |->
               IF attributes[j].buffer_index = b THEN ClaimedByteLen(attributes[j].format) ELSE 0])

\* C7: in a registered pipeline, every record of a buffer slot declared with
\* stride 0 has as stride the sum of the byte lengths of the attributes assigned
\* to the slot (64 for a Mat4), and every record of a slot declared with another
\* stride has the declared stride.
C7_Stride ==
    Created =>
        \A k \in DOMAIN NewLayout :
            LET b == NewLayout[k].buffer_index
                declared == last.buffer_layout[b + 1].stride
            IN  NewLayout[k].stride =
                    IF declared = 0 THEN SlotByteLen(last.attributes, b) ELSE declared

\* C7 witness: a registered pipeline with a Mat4 and a byte attribute on one
\* buffer slot of declared stride 0
C7_Witness ==
    /\ Created
    /\ \E j, j2 \in DOMAIN last.attributes :
          /\ last.attributes[j].format = "Mat4"
          /\ last.attributes[j2].format = "Byte2"
          /\ last.attributes[j].buffer_index = last.attributes[j2].buffer_index
          /\ last.buffer_layout[last.attributes[j].buffer_index + 1].stride = 0

\* C9: a with_params call with an attribute that resolves to a location of 16
\* or more fails, and no registered pipeline has more than 16 layout records.
C9_LocationOverflowFails ==
    /\ \A p \in DOMAIN pipelines :
          Cardinality(DOMAIN pipelines[p].layout) <= MAX_VERTEX_ATTRIBUTES
    /\ (/\ last.op = "with_params"
        /\ \E j \in DOMAIN last.attributes :
              /\ LocationOf(gl, shaders, last, last.attributes[j]) # -1
              /\ Max(LocationsOf(gl, shaders, last, last.attributes[j])) >= MAX_VERTEX_ATTRIBUTES)
       => panicked

\* a layout array in which every record is filled and sits at its location
GapFree(layout) ==
    \A k \in DOMAIN layout : layout[k].size \in 1 .. 4 /\ layout[k].attr_loc = k

\* the attributes of call l all resolve, and their locations overlap or leave
\* an index below the highest of them unfilled
Unfilled(g, shs, l) ==
    LET as == l.attributes
        all == UNION {LocationsOf(g, shs, l, as[j]) : j \in DOMAIN as}
    IN  /\ as # <<>>
        /\ \A j \in DOMAIN as : LocationOf(g, shs, l, as[j]) # -1
        /\ \/ \E k \in 0 .. Max(all) : k \notin all
           \/ \E j, j2 \in DOMAIN as :
                 /\ j < j2
                 /\ LocationsOf(g, shs, l, as[j]) \cap LocationsOf(g, shs, l, as[j2]) # {}

\* C10: every pipeline of the registry has a record with 1 to 4 components and
\* its own location at every index of its layout, the layout of a pipeline just
\* registered reaches from 0 to its highest resolved location, and a with_params
\* call whose resolved locations overlap or leave an index below the highest
\* unfilled fails and leaves the registry as it was.
C10_GapFree ==
    [][/\ \A p \in DOMAIN pipelines' : GapFree(pipelines'[p].layout)
       /\ last'.op = "with_params" =>
             /\ (~panicked' /\ last'.attributes # <<>>) =>
                   DOMAIN pipelines'[Len(pipelines')].layout =
                       0 .. Max(UNION {LocationsOf(gl', shaders', last', last'.attributes[j]) :
                                          j \in DOMAIN last'.attributes})
             /\ Unfilled(gl', shaders', last') => (panicked' /\ pipelines' = pipelines)]_vars

\* C10 witness: a with_params call failed although every name resolved, every
\* buffer slot was declared and every location was inside the layout array: two
\* attributes met at one location and left another index unfilled
C10_Witness ==
    /\ last.op = "with_params" /\ panicked
    /\ pipelines = <<>>
    /\ Unfilled(gl, shaders, last)
    /\ \A j \in DOMAIN last.attributes :
          /\ last.attributes[j].buffer_index < Len(last.buffer_layout)
          /\ Max(LocationsOf(gl, shaders, last, last.attributes[j]))
                < attributes_len(last.attributes)

----------------------------------------------------------------------------
(* Properties of the cache as a mirror of the driver *)

\* C20: in every state reached from Context::new, the tracked vertex buffer
\* is the driver's bound vertex buffer, the tracked index buffer is the
\* driver's bound index buffer, the driver has blending enabled exactly when the
\* cached blend state is Some, and for each of the 16 attribute slots the
\* driver has the array enabled exactly when the cache holds an entry for it,
\* and then the driver's pointer, divisor and source buffer of the slot are
\* those of the cached record and buffer handle.
C20_CacheMirrorsDriver ==
    /\ cache.vertex_buffer = gl.array_buffer
    /\ cache.index_buffer = gl.element_array_buffer
    /\ gl.blend <=> is_some(cache.blend)
    /\ \A i \in 0 .. MAX_VERTEX_ATTRIBUTES - 1 :
          /\ gl.attribs[i].enabled <=> is_some(cache.attributes[i])
          /\ is_some(cache.attributes[i]) =>
                LET entry == unwrap(cache.attributes[i]) IN
                /\ gl.attribs[i].pointer = <<[size |-> entry.attribute.size,
                                              type_ |-> entry.attribute.type_,
                                              stride |-> entry.attribute.stride,
                                              offset |-> entry.attribute.offset]>>
                /\ gl.attribs[i].divisor = <<entry.attribute.divisor>>
                /\ gl.attribs[i].buffer = <<entry.gl_vbuf>>

\* C20 witness: an apply_bindings that disabled one slot and left another
\* enabled, with blending on, after which a buffer creation bound and restored
\* the vertex target
C20_Witness ==
    /\ last.op \in {"Buffer::immutable", "Buffer::stream"}
    /\ Target(last.buffer) = "GL_ARRAY_BUFFER"
    /\ ~panicked
    /\ cache.vertex_buffer # 0
    /\ is_some(cache.blend)
    /\ is_some(cache.attributes[0])
    /\ is_none(cache.attributes[1])
    /\ Len(pipelines) > 1

----------------------------------------------------------------------------
(* Properties of failing creations *)

\* attribute a of with_params call l names no attribute of the shader's program
UnknownName(g, shs, l, a) == LocationOf(g, shs, l, a) = -1

\* attribute a of with_params call l names a buffer slot the call does not declare
UndeclaredSlot(l, a) == a.buffer_index >= Len(l.buffer_layout)

\* C11: a with_params call with an attribute whose name the shader's program
\* does not expose, or whose buffer_index is no index of the buffer layouts,
\* fails and leaves the pipeline registry and the state cache as they were.
C11_UnknownAttributeFails ==
    [][(/\ last'.op = "with_params"
        /\ \E j \in DOMAIN last'.attributes :
              \/ UnknownName(gl', shaders', last', last'.attributes[j])
              \/ UndeclaredSlot(last', last'.attributes[j]))
       => (panicked' /\ pipelines' = pipelines /\ cache' = cache)]_vars

\* C11 witness: a with_params call failed on a name the program does not
\* expose, every buffer slot being declared and every other name known
C11_Witness ==
    /\ last.op = "with_params" /\ panicked
    /\ pipelines = <<>>
    /\ Len(last.attributes) = 2
    /\ ~UnknownName(gl, shaders, last, last.attributes[1])
    /\ UnknownName(gl, shaders, last, last.attributes[2])
    /\ \A j \in DOMAIN last.attributes : ~UndeclaredSlot(last, last.attributes[j])

----------------------------------------------------------------------------
(* Properties of the order of use *)

\* the shader of the pipeline the cache names as current
CurrentShader == shaders[pipelines[unwrap(cache.cur_pipeline) + 1].shader + 1]

\* the sum of the byte sizes of the uniforms a shader declares
DeclaredBytes(shader) ==
    SumSeq([k \in DOMAIN shader.uniforms |-> shader.uniforms[k].size])

NeedsPipeline == {"apply_bindings", "apply_uniforms"}

\* C12 as stated: an apply_bindings or apply_uniforms call fails exactly when no
\* apply_pipeline has completed on the context, and no operation clears the
\* tracked current pipeline.
C12_FailsExactlyWithoutPipeline ==
    [][/\ last'.op \in NeedsPipeline => (panicked' <=> ~usage.pipeline_applied)
       /\ is_some(cache.cur_pipeline) => is_some(cache'.cur_pipeline)]_vars

\* C12, amended: an apply_bindings or apply_uniforms call fails whenever no
\* apply_pipeline has completed on the context; the tracked current pipeline is
\* set exactly when an apply_pipeline has completed, is the pipeline of the
\* latest apply_pipeline and is changed by no other operation; and with a
\* pipeline applied, apply_bindings completes when the bindings give every
\* image and vertex buffer slot the pipeline uses, and apply_uniforms completes
\* when its block is at least 4 bytes larger than the declared uniforms.
C12_PipelineRequired ==
    [][/\ (last'.op \in NeedsPipeline /\ ~usage.pipeline_applied) => panicked'
       /\ usage'.pipeline_applied <=> is_some(cache'.cur_pipeline)
       /\ IF last'.op = "apply_pipeline"
          THEN cache'.cur_pipeline = Some(last'.pipeline)
          ELSE cache'.cur_pipeline = cache.cur_pipeline
       /\ (last'.op = "apply_bindings" /\ usage.pipeline_applied) =>
             LET pip == pipelines[unwrap(cache.cur_pipeline) + 1] IN
             (/\ Len(last'.bindings.images) >= Len(shaders[pip.shader + 1].images)
              /\ \A k \in DOMAIN pip.layout :
                    k < MAX_VERTEX_ATTRIBUTES =>
                        pip.layout[k].buffer_index < Len(last'.bindings.vertex_buffers))
             => ~panicked'
       /\ (last'.op = "apply_uniforms" /\ usage.pipeline_applied) =>
             (last'.block_size >= DeclaredBytes(CurrentShader) + 4 => ~panicked')]_vars

\* C12 witness: an apply_uniforms completed after the end_render_pass that
\* followed the bindings applied under the current pipeline
C12_Witness ==
    /\ last.op = "apply_uniforms" /\ ~panicked
    /\ calls # <<>>
    /\ is_some(cache.attributes[0])
    /\ ~usage.bindings_applied
    /\ gl.framebuffer # default_framebuffer

IsDrawCall(c) == c.call = "glDrawElementsInstanced"

\* C13: a draw called while no apply_bindings has completed since Context::new
\* or since the last end_render_pass fails and issues no driver draw call.
C13_DrawNeedsBindings ==
    (last.op = "draw" /\ ~usage.bindings_applied) =>
        (panicked /\ SelectSeq(calls, IsDrawCall) = <<>>)

\* C14: every draw(base_element, num_elements, num_instances) issues exactly
\* one glDrawElementsInstanced with index type GL_UNSIGNED_SHORT, count
\* num_elements, instance count num_instances and index offset 2 * base_element
\* (stated as: the offset is even and its half is base_element), and changes
\* neither the registries nor the cache.
C14_DrawOffset ==
    [][last'.op = "draw" =>
          /\ ~panicked'
          /\ Len(calls') = 1
          /\ IsDrawCall(calls'[1])
          /\ calls'[1].type_ = "GL_UNSIGNED_SHORT"
          /\ calls'[1].count = last'.num_elements
          /\ calls'[1].instancecount = last'.num_instances
          /\ calls'[1].indices % 2 = 0
          /\ calls'[1].indices \div 2 = last'.base_element
          /\ cache' = cache
          /\ <<shaders', pipelines', passes', default_framebuffer'>> =
                <<shaders, pipelines, passes, default_framebuffer>>]_vars

----------------------------------------------------------------------------
(* Properties of passes, uniform blocks and the registries *)

\* C15: after every end_render_pass the driver's bound framebuffer is the
\* default framebuffer, and the tracked and the driver's vertex buffer and
\* index buffer bindings are 0.
C15_EndOfPassUnbinds ==
    last.op = "end_render_pass" =>
        /\ gl.framebuffer = default_framebuffer
        /\ cache.vertex_buffer = 0 /\ gl.array_buffer = 0
        /\ cache.index_buffer = 0 /\ gl.element_array_buffer = 0

\* C15 witness: an end_render_pass that had both buffer targets to unbind, on a
\* context with an offscreen pass
C15_Witness ==
    /\ last.op = "end_render_pass" /\ ~panicked
    /\ Len(SelectSeq(calls, IsBufferBind)) = 2
    /\ passes # <<>>

\* C16: every RenderPass::new leaves the driver's framebuffer binding as it was
\* before the call.
C16_PassCreationKeepsFramebuffer ==
    [][last'.op = "RenderPass::new" => gl'.framebuffer = gl.framebuffer]_vars

IsUniformCall(c) ==
    c.call \in {"glUniform1fv", "glUniform2fv", "glUniform3fv", "glUniform4fv",
                "glUniformMatrix4fv"}

\* C17: an apply_uniforms under an applied pipeline, with a block smaller than
\* the sum of the byte sizes of the shader's declared uniforms, fails, and no
\* apply_uniforms has the driver read bytes beyond the end of the block.
C17_SmallBlockFails ==
    (last.op = "apply_uniforms" /\ usage.pipeline_applied) =>
        /\ last.block_size < DeclaredBytes(CurrentShader) => panicked
        /\ \A i \in DOMAIN calls :
              IsUniformCall(calls[i]) => calls[i].data + calls[i].len <= last.block_size

ClaimedUniformSize(uniform_type) ==
    CASE uniform_type = "Float1" -> 4
      [] uniform_type = "Float2" -> 8
      [] uniform_type = "Float3" -> 12
      [] uniform_type = "Float4" -> 16
      [] uniform_type = "Mat4" -> 64

\* the sum of the byte sizes of the first k declared uniforms of a shader
BytesBefore(shader, k) ==
    SumSeq([j \in 1 .. k |-> ClaimedUniformSize(shader.uniforms[j].uniform_type)])

\* C18: in every registered shader the stored offset of the k-th declared
\* uniform is the sum of the byte sizes of the uniforms declared before it
\* (Float1 4, Float2 8, Float3 12, Float4 16, Mat4 64), and the k-th read of an
\* apply_uniforms starts at that byte of the caller's block.
C18_UniformOffsets ==
    /\ \A s \in DOMAIN shaders :
          \A k \in DOMAIN shaders[s].uniforms :
              shaders[s].uniforms[k].offset = BytesBefore(shaders[s], k - 1)
    /\ (last.op = "apply_uniforms" /\ usage.pipeline_applied) =>
          \A k \in DOMAIN calls :
              /\ IsUniformCall(calls[k])
              /\ calls[k].location = CurrentShader.uniforms[k].gl_loc
              /\ calls[k].data = CurrentShader.uniforms[k].offset

\* C18 witness: an apply_uniforms read four uniforms of four types
C18_Witness ==
    /\ last.op = "apply_uniforms" /\ ~panicked
    /\ Len(calls) = 4
    /\ calls[4].data = 24

IsPrefix(s, t) == Len(s) <= Len(t) /\ \A i \in DOMAIN s : t[i] = s[i]

\* what a creation does to its registry, and the handle it returns
Appended(registry, registry2, failed, handle) ==
    IF failed THEN registry2 = registry
    ELSE Len(registry2) = Len(registry) + 1 /\ handle = Len(registry2) - 1

\* C19: every step keeps the entries of the shader, pipeline and render pass
\* registries in place; a creation that completes appends one entry to its
\* registry and returns the index of that entry; a creation that fails and
\* every other operation leave the registries as they were.
C19_RegistriesAppendOnly ==
    [][/\ IsPrefix(shaders, shaders')
       /\ IsPrefix(pipelines, pipelines')
       /\ IsPrefix(passes, passes')
       /\ IF last'.op = "Shader::new"
          THEN Appended(shaders, shaders', panicked', last'.handle)
          ELSE shaders' = shaders
       /\ IF last'.op = "with_params"
          THEN Appended(pipelines, pipelines', panicked', last'.handle)
          ELSE pipelines' = pipelines
       /\ IF last'.op = "RenderPass::new"
          THEN Appended(passes, passes', panicked', last'.handle)
          ELSE passes' = passes]_vars

\* C19 witness: a shader creation failed on a context that holds a shader, a
\* pipeline and a render pass
C19_Witness ==
    /\ last.op = "Shader::new" /\ panicked
    /\ Len(shaders) = 1 /\ Len(pipelines) = 1 /\ passes # <<>>

----------------------------------------------------------------------------
(* Properties of begin_pass, re-application, divisors and offsets *)

\* the driver calls of one name among the calls cs, in their order
CallsOf(cs, name) == SelectSeq(cs, LAMBDA c : c.call = name)

\* the framebuffer and the extent of the target a begin_pass names
PassTarget(pss, default_fb, pass) ==
    IF pass = <<>>
    THEN [framebuffer |-> default_fb, w |-> Screen.width, h |-> Screen.height]
    ELSE [framebuffer |-> pss[pass[1] + 1].gl_fb,
          w |-> pss[pass[1] + 1].texture.width,
          h |-> pss[pass[1] + 1].texture.height]

\* the mask bits of the components a Clear action gives a value for
PresentBits(action) ==
    {b \in {"GL_COLOR_BUFFER_BIT", "GL_DEPTH_BUFFER_BIT", "GL_STENCIL_BUFFER_BIT"} :
        \/ b = "GL_COLOR_BUFFER_BIT" /\ action.color # <<>>
        \/ b = "GL_DEPTH_BUFFER_BIT" /\ action.depth # <<>>
        \/ b = "GL_STENCIL_BUFFER_BIT" /\ action.stencil # <<>>}

\* C21: begin_pass binds the default framebuffer when the target is none and
\* the render pass's own framebuffer otherwise, sets viewport and scissor to
\* (0, 0, w, h) of that target (the surface's size, or the size of the pass's
\* color texture), and for a Clear action issues one clear call whose mask
\* holds the color, depth and stencil bit exactly for the components that are
\* present; with PassAction::Nothing or a Clear with all three components
\* absent it issues no clear call.  begin_pass changes no field of the cache.
C21_BeginPassTarget ==
    [][last'.op = "begin_pass" =>
          LET target == PassTarget(passes, default_framebuffer, last'.pass)
              rect == [x |-> 0, y |-> 0, w |-> target.w, h |-> target.h]
              clears == CallsOf(calls', "glClear")
              binds == CallsOf(calls', "glBindFramebuffer")
              viewports == CallsOf(calls', "glViewport")
              scissors == CallsOf(calls', "glScissor")
          IN  /\ ~panicked'
              /\ Len(binds) = 1 /\ binds[1].framebuffer = target.framebuffer
              /\ gl'.framebuffer = target.framebuffer
              /\ Len(viewports) = 1
              /\ [k \in {"x", "y", "w", "h"} |-> viewports[1][k]] = rect
              /\ Len(scissors) = 1
              /\ [k \in {"x", "y", "w", "h"} |-> scissors[1][k]] = rect
              /\ IF last'.action.kind = "Clear" /\ PresentBits(last'.action) # {}
                 THEN Len(clears) = 1 /\ clears[1].bits = PresentBits(last'.action)
                 ELSE clears = <<>>
              /\ cache' = cache]_vars

\* C21 witness: a pass began on an offscreen target with a clear of the stencil
\* alone, under a cache that holds a pipeline and bound buffers
C21_Witness ==
    /\ last.op = "begin_pass" /\ ~panicked
    /\ last.pass # <<>>
    /\ gl.framebuffer = passes[last.pass[1] + 1].gl_fb
    /\ gl.framebuffer # default_framebuffer
    /\ CallsOf(calls, "glClear") = <<[call |-> "glClear", bits |-> {"GL_STENCIL_BUFFER_BIT"}]>>
    /\ is_some(cache.cur_pipeline)
    /\ cache.index_buffer # 0

\* C22: applying the same pipeline twice in a row leaves the cache (current
\* pipeline, blend state, tracked buffers, attribute entries) as the first
\* application left it, and no step changes the layout or the parameters of a
\* registered pipeline.
C22_ReapplyIsIdempotent ==
    [][/\ (/\ last.op = "apply_pipeline" /\ ~panicked
           /\ last'.op = "apply_pipeline" /\ last'.pipeline = last.pipeline) =>
             (~panicked' /\ cache' = cache)
       /\ \A i \in DOMAIN pipelines :
             /\ i \in DOMAIN pipelines'
             /\ pipelines'[i].layout = pipelines[i].layout
             /\ pipelines'[i].params = pipelines[i].params]_vars

\* C22 witness: the alpha-blending pipeline was applied again while it was the
\* latest pipeline applied (its blend state was tracked, so no blend call was
\* issued), under a cache that holds attribute entries and an index buffer
C22_Witness ==
    /\ last.op = "apply_pipeline" /\ ~panicked
    /\ pipelines[last.pipeline + 1].params.color_blend = Some(BlendAlpha)
    /\ cache.blend = Some(BlendAlpha)
    /\ SelectSeq(calls, IsBlendCall) = <<>>
    /\ cache.cur_pipeline = Some(last.pipeline)
    /\ is_some(cache.attributes[0])
    /\ cache.index_buffer # 0

\* the divisor C23 gives the records of a buffer slot
ClaimedDivisor(slot) == IF slot.step_func = "PerVertex" THEN 0 ELSE slot.step_rate

\* C23: every layout record of a registered pipeline has instance divisor 0
\* when its buffer slot's step mode is PerVertex (whatever the slot's step
\* rate) and the slot's declared step rate when the step mode is PerInstance;
\* the four records of a Mat4 attribute carry the same divisor.
C23_Divisor ==
    Created =>
        /\ \A k \in DOMAIN NewLayout :
              NewLayout[k].divisor =
                  ClaimedDivisor(last.buffer_layout[NewLayout[k].buffer_index + 1])
        /\ \A j \in DOMAIN last.attributes :
              LET a == last.attributes[j]
                  L == LocationOf(gl, shaders, last, a)
              IN  a.format = "Mat4" =>
                      \A i \in 1 .. 3 : NewLayout[L + i].divisor = NewLayout[L].divisor

\* C23 witness: a registered pipeline with a Mat4 attribute on a PerInstance
\* slot of step rate 2 and a record on a PerVertex slot
C23_Witness ==
    /\ Created
    /\ \E j \in DOMAIN last.attributes :
          /\ last.attributes[j].format = "Mat4"
          /\ last.buffer_layout[last.attributes[j].buffer_index + 1] = PerInstance(2)
          /\ NewLayout[LocationOf(gl, shaders, last, last.attributes[j]) + 3].divisor = 2
    /\ \E k \in DOMAIN NewLayout :
          /\ last.buffer_layout[NewLayout[k].buffer_index + 1].step_func = "PerVertex"
          /\ NewLayout[k].divisor = 0

----------------------------------------------------------------------------
(* Properties of a pass *)

\* C24: at every draw that follows a completed apply_bindings(B) in the same
\* pass, the driver's bound index buffer is B's index buffer, whatever
\* Buffer::immutable, Buffer::stream and Buffer::update calls (on vertex or
\* index buffers, B's own index buffer included) were made between that
\* apply_bindings and the draw.
C24_DrawUsesBoundIndexBuffer ==
    (last.op = "draw" /\ ~panicked /\ is_some(run.b) /\ ~run.ended) =>
        gl.element_array_buffer = unwrap(run.b).index_buffer.gl_buf

\* the sum of the byte lengths of the attributes declared before the j-th on
\* its buffer slot
BytesDeclaredBefore(attributes, j) ==
    SumSeq([i \in 1 .. j - 1 |->
               IF attributes[i].buffer_index = attributes[j].buffer_index
               THEN ClaimedByteLen(attributes[i].format) ELSE 0])

\* the bytes one layout record covers in a vertex
RecordByteLen(record) ==
    IF record.type_ = "GL_UNSIGNED_BYTE" THEN record.size ELSE 4 * record.size

\* C25: in a registered pipeline, on every buffer slot declared with stride 0,
\* the byte offset of an attribute (of the first of its records, for a Mat4)
\* is the sum of byte_len() of the attributes declared before it on the same
\* slot, and no record's offset plus byte length exceeds the slot's stride,
\* for all vertex formats, byte formats mixed with float formats included.
C25_AutoStrideOffsets ==
    Created =>
        /\ \A j \in DOMAIN last.attributes :
              LET a == last.attributes[j]
                  L == LocationOf(gl, shaders, last, a)
              IN  last.buffer_layout[a.buffer_index + 1].stride = 0 =>
                      NewLayout[L].offset = BytesDeclaredBefore(last.attributes, j)
        /\ \A k \in DOMAIN NewLayout :
              last.buffer_layout[NewLayout[k].buffer_index + 1].stride = 0 =>
                  NewLayout[k].offset + RecordByteLen(NewLayout[k]) <= NewLayout[k].stride

\* C26: an apply_uniforms under an applied pipeline completes for every block
\* whose byte size is at least the sum of the declared uniforms' byte sizes, a
\* block of exactly that size and a 4-byte block for a single Float1 uniform
\* included; and for a block of less than 4 bytes the size check does not
\* underflow: it rejects the block for the uniforms it is checked against.
C26_FittingBlockSucceeds ==
    (last.op = "apply_uniforms" /\ usage.pipeline_applied) =>
        /\ last.block_size >= DeclaredBytes(CurrentShader) => ~panicked
        /\ (last.block_size < 4 /\ CurrentShader.uniforms # <<>>) => panicked

\* a driver bind call of buffer gl_buf on target
BindCall(target, gl_buf) == [call |-> "glBindBuffer", target |-> target, buffer |-> gl_buf]

\* C27: after an end_render_pass, the next apply_bindings with the same
\* pipeline and the same bindings as before the end_render_pass issues a
\* driver bind call for the index buffer and a driver bind call for each vertex
\* buffer the pipeline uses: the cache hit of the previous pass is not reused.
C27_RebindAfterEndOfPass ==
    [][(/\ last'.op = "apply_bindings" /\ ~panicked'
        /\ run.ended /\ run.b = Some(last'.bindings)) =>
          LET bindings == last'.bindings
              pip == pipelines[unwrap(cache.cur_pipeline) + 1]
          IN  /\ \E i \in DOMAIN calls' :
                    calls'[i] = BindCall("GL_ELEMENT_ARRAY_BUFFER", bindings.index_buffer.gl_buf)
              /\ \A k \in DOMAIN pip.layout :
                    \E i \in DOMAIN calls' :
                        calls'[i] = BindCall("GL_ARRAY_BUFFER",
                            bindings.vertex_buffers[pip.layout[k].buffer_index + 1].gl_buf)]_vars

----------------------------------------------------------------------------
(* Properties of the attribute entries *)

\* C28: after any completed apply_bindings, for every attribute slot i in
\* 0..15 the cache holds an entry for i if and only if the active pipeline's
\* layout defines slot i, and that entry is the pipeline's record for i paired
\* with the handle of the bindings' vertex buffer at the record's buffer slot;
\* no slot outside the pipeline's layout remains enabled in the driver.
C28_EntriesFollowLayout ==
    (last.op = "apply_bindings" /\ ~panicked) =>
        LET pip == pipelines[unwrap(cache.cur_pipeline) + 1] IN
        \A i \in 0 .. MAX_VERTEX_ATTRIBUTES - 1 :
            /\ is_some(cache.attributes[i]) <=> i \in DOMAIN pip.layout
            /\ i \in DOMAIN pip.layout =>
                  cache.attributes[i] =
                      <<[attribute |-> pip.layout[i],
                         gl_vbuf |-> last.bindings.vertex_buffers[
                                         pip.layout[i].buffer_index + 1].gl_buf]>>
            /\ i \notin DOMAIN pip.layout => ~gl.attribs[i].enabled

\* C28 witness: an apply_bindings under the one-record pipeline, after a
\* pipeline with six records had its bindings applied, disabled slots 1 to 5
C28_Witness ==
    /\ last.op = "apply_bindings" /\ ~panicked
    /\ DOMAIN pipelines[unwrap(cache.cur_pipeline) + 1].layout = {0}
    /\ \A i \in 1 .. 5 : CallsAt(calls, "glDisableVertexAttribArray", i) = 1
    /\ is_some(cache.attributes[0])

====
